---- MODULE Spec2Model ----
(***************************************************************************)
(* Lumina Gallery: the upload / get / delete orchestration of the two      *)
(* parallel back ends (backend/app.py over S3 + DynamoDB + Lambda, and     *)
(* backend/server.py over the local disk + MongoDB) and the image          *)
(* processing Lambda (backend/lambda_function.py).                         *)
(*                                                                         *)
(* Text is modelled as a sequence of characters, a payload as a sequence   *)
(* of bytes.  Every call to a store is one atomic step; the steps of       *)
(* concurrent requests interleave.  A store call either succeeds, raises   *)
(* botocore's ClientError, or raises some other exception (a connection    *)
(* or time-out error, a parameter validation error).                       *)
(***************************************************************************)
EXTENDS Integers, Sequences, FiniteSets, TLC

VARIABLES variant, table, bucket, issued, now, req, lam

vars == <<variant, table, bucket, issued, now, req, lam>>

(* ------------------------------ bounds -------------------------------- *)

\* number of client requests of one run
MaxReq == 3
\* longest tags field drawn from the alphabet of a tag, a comma and a blank
MaxTagLen == 3
\* largest image id a get or delete request names (0 is an id never issued)
MaxTarget == 1
\* the clock stops advancing here
MaxNow == 2

Req == 1..MaxReq

(* ------------------------------- text --------------------------------- *)

\* Python's None, for a text-valued form field, header or dict entry
None == <<"<None>">>

\* Python truthiness of an optional text: None and '' are falsy
Truthy(s) == s # None /\ s # <<>>

\* str.startswith
startswith(s, p) == Len(s) >= Len(p) /\ SubSeq(s, 1, Len(p)) = p

image_prefix == <<"i", "m", "g", "/">>

\* str.lower on one character (the alphabet of the model)
lower_char(c) == CASE c = "P" -> "p" [] c = "A" -> "a" [] OTHER -> c

\* str.lower
lower(s) == [i \in 1..Len(s) |-> lower_char(s[i])]

\* position of the last occurrence of c in s, 0 when there is none
RECURSIVE rfind(_, _, _)
rfind(s, c, i) == IF i = 0 THEN 0 ELSE IF s[i] = c THEN i ELSE rfind(s, c, i - 1)

\* str.strip (whitespace is the blank)
RECURSIVE lstrip(_)
lstrip(s) == IF s # <<>> /\ Head(s) = " " THEN lstrip(Tail(s)) ELSE s

RECURSIVE rstrip(_)
rstrip(s) == IF s # <<>> /\ s[Len(s)] = " " THEN rstrip(SubSeq(s, 1, Len(s) - 1)) ELSE s

strip(s) == rstrip(lstrip(s))

\* str.split(','): the pieces between the commas, empty pieces included
RECURSIVE split(_, _)
split(s, cur) ==
    IF s = <<>> THEN <<cur>>
    ELSE IF Head(s) = "," THEN <<cur>> \o split(Tail(s), <<>>)
    ELSE split(Tail(s), Append(cur, Head(s)))

\* [tag.strip() for tag in parts if tag.strip()]
RECURSIVE strip_nonempty(_)
strip_nonempty(parts) ==
    IF parts = <<>> THEN <<>>
    ELSE IF strip(Head(parts)) # <<>>
         THEN <<strip(Head(parts))>> \o strip_nonempty(Tail(parts))
         ELSE strip_nonempty(Tail(parts))

\* a tags_list of the pieces as they are
parse_tags_pieces(tags) == IF tags # <<>> THEN split(tags, <<>>) ELSE <<>>

\* tags_list of upload_image: [] for an empty tags field
parse_tags(tags) == IF tags # <<>> THEN strip_nonempty(split(tags, <<>>)) ELSE <<>>

\* file.filename.rsplit('.', 1)[1].lower() if '.' in file.filename else 'jpg'
file_extension(filename) ==
    IF rfind(filename, ".", Len(filename)) # 0
    THEN lower(SubSeq(filename, rfind(filename, ".", Len(filename)) + 1, Len(filename)))
    ELSE <<"j", "p", "g">>

\* Path(file.filename).suffix: the last dot and what follows it, '' when the
\* name has no dot, starts with its only dot or ends with a dot
suffix(filename) ==
    IF rfind(filename, ".", Len(filename)) > 1
       /\ rfind(filename, ".", Len(filename)) < Len(filename)
    THEN SubSeq(filename, rfind(filename, ".", Len(filename)), Len(filename))
    ELSE <<>>

\* the code point order of the characters of a timestamp or a date filter
ord(c) ==
    CASE c = " " -> 0 [] c = "+" -> 1 [] c = "0" -> 2 [] c = "1" -> 3
      [] c = "2" -> 4 [] c = "3" -> 5 [] c = "4" -> 6 [] c = "Z" -> 7
      [] OTHER -> 8

\* Python's a < b on str: the first differing character decides, a proper
\* prefix is smaller
RECURSIVE str_lt(_, _)
str_lt(a, b) ==
    IF b = <<>> THEN FALSE
    ELSE IF a = <<>> THEN TRUE
    ELSE IF Head(a) # Head(b) THEN ord(Head(a)) < ord(Head(b))
    ELSE str_lt(Tail(a), Tail(b))

\* the digits of an hour and of a UTC offset
Digits == <<"0", "1", "2", "3", "4">>

\* the number a digit stands for, -1 for another character
digit_value(c) ==
    IF \E n \in 1..Len(Digits) : Digits[n] = c
    THEN (CHOOSE n \in 1..Len(Digits) : Digits[n] = c) - 1
    ELSE 0 - 1

\* datetime.now(timezone.utc).isoformat() at the hour t: the hour, the sign
\* and the offset ("2025-01-01T01:00:00+00:00" is <<"1", "+", "0">>)
isoformat(t) == <<Digits[t + 1], "+", "0">>

\* datetime.fromisoformat accepts hour+offset and hourZ; anything else is a
\* ValueError
fromisoformat_ok(s) ==
    \/ Len(s) = 3 /\ digit_value(s[1]) >= 0 /\ s[2] = "+" /\ digit_value(s[3]) >= 0
    \/ Len(s) = 2 /\ digit_value(s[1]) >= 0 /\ s[2] = "Z"

\* datetime.fromisoformat(s).isoformat(): Z is written +00:00, another
\* offset is kept as it is
fromisoformat_isoformat(s) == IF Len(s) = 2 THEN <<s[1], "+", "0">> ELSE s

\* mimetypes.guess_type(path)[0] or "application/octet-stream": the type of
\* the extension, whatever its case
guess_type(tail) ==
    IF lower(tail) = <<".", "p">> THEN <<"i", "m", "g", "/", "p">>
    ELSE <<"o", "c", "t">>

(* ------------------------------ stores -------------------------------- *)

\* results of one call to a store or to the Lambda service
Outcomes == {"ok", "ClientError", "Exception"}

\* a blob key: the directory prefix, the uuid and what follows the uuid
NoKey == [dir |-> <<>>, uid |-> 0, tail |-> <<>>]

\* s3_key = f"{image_id}.{file_extension}"
s3_key_of(image_id, filename) ==
    [dir |-> <<>>, uid |-> image_id, tail |-> <<".">> \o file_extension(filename)]

\* file_path = UPLOADS_DIR / f"{uuid.uuid4()}{file_extension}"
file_path_of(uid, filename) ==
    [dir |-> <<"u", "/">>, uid |-> uid, tail |-> suffix(filename)]

\* thumbnail_key = f"thumbnails/{s3_key}"
thumbnail_key_of(s3_key) ==
    [dir |-> <<"t", "/">> \o s3_key.dir, uid |-> s3_key.uid, tail |-> s3_key.tail]

\* S3 PutObject, or writing a file: the object under the key is replaced
PutObject(b, key, body, ctype) ==
    [k \in DOMAIN b \cup {key} |->
        IF k = key THEN [Body |-> body, ContentType |-> ctype] ELSE b[k]]

\* S3 DeleteObject, or unlinking a file: no error when the key is absent
DeleteObject(b, key) == [k \in DOMAIN b \ {key} |-> b[k]]

\* the names of the attributes of a record written by upload_image
UploadFields ==
    {"id", "filename", "file_size", "file_type", "uploader", "tags",
     "description", "upload_date"}

PatchFields == {"width", "height", "thumbnail_key", "processed"}

\* a stored item: `fields` are the attributes the item has; an attribute the
\* item does not have reads as None through dict.get
BlankItem ==
    [fields |-> {}, id |-> 0, filename |-> None, s3_key |-> NoKey,
     file_path |-> NoKey, file_size |-> 0, file_type |-> None,
     uploader |-> None, tags |-> <<>>, description |-> None,
     upload_date |-> None, width |-> 0, height |-> 0,
     thumbnail_key |-> NoKey, processed |-> FALSE]

\* what get_item returns for a missing key: None
NoItem == BlankItem

\* DynamoDB PutItem / MongoDB insert_one
PutItem(t, item) == [i \in DOMAIN t \cup {item.id} |-> IF i = item.id THEN item ELSE t[i]]

\* DynamoDB GetItem / MongoDB find_one
GetItem(t, image_id) == IF image_id \in DOMAIN t THEN t[image_id] ELSE NoItem

\* DynamoDB DeleteItem: no error when the key is absent
DeleteItem(t, image_id) == [i \in DOMAIN t \ {image_id} |-> t[i]]

(* --------------------------- aws_services.py -------------------------- *)

\* what a wrapper that catches ClientError gives its caller: the Python
\* value it returns, or "raise" when the exception passes through it
upload_to_s3(o) == CASE o = "ok" -> "True" [] o = "ClientError" -> "False" [] OTHER -> "raise"

\* a put_item that reports success whatever happened
put_item_always_true(o) == "True"

delete_from_s3(o) == CASE o = "ok" -> "True" [] o = "ClientError" -> "False" [] OTHER -> "raise"

put_item(o) == CASE o = "ok" -> "True" [] o = "ClientError" -> "False" [] OTHER -> "raise"

delete_item(o) == CASE o = "ok" -> "True" [] o = "ClientError" -> "False" [] OTHER -> "raise"

\* download_from_s3: the bytes and the content type, (None, None) for a
\* ClientError
download_from_s3(o) == CASE o = "ok" -> "data" [] o = "ClientError" -> "None" [] OTHER -> "raise"

\* scan_items: the items, [] for a ClientError
scan_items(o) == CASE o = "ok" -> "Items" [] o = "ClientError" -> "[]" [] OTHER -> "raise"

\* get_item: the item, None for a missing item and for a ClientError
get_item(o) == CASE o = "ok" -> "Item" [] o = "ClientError" -> "None" [] OTHER -> "raise"

\* invoke_lambda: the function's result, None for a ClientError
invoke_lambda(o) == CASE o = "ok" -> "result" [] o = "ClientError" -> "None" [] OTHER -> "raise"

(* ------------------------------ requests ------------------------------ *)

\* the multipart form of an upload request: `file` tells whether the form
\* has a file part; a field the form does not have is None
Filenames == {<<>>, <<"A", ".", "P">>, <<"b">>}

ContentTypes == {None, <<"i", "m", "g", "/", "p">>, <<"t", "x", "t", "/", "p">>}

Uploaders == {None, <<>>, <<"U">>}

TagFields == {None, <<"a", ",", " ", ",", "b", " ">>}

Descriptions == {None, <<"d">>}

Bodies == {<<>>, <<1>>, <<0, 1>>}

\* the length the client declares for the file part
ContentLengths == {0, 1, 2}

Forms ==
    [file : BOOLEAN, filename : Filenames, content_type : ContentTypes,
     uploader : Uploaders, tags : TagFields, description : Descriptions,
     body : Bodies, content_length : ContentLengths]

\* the form of a well-formed upload of a decodable image
GoodForm ==
    [file |-> TRUE, filename |-> <<"A", ".", "P">>,
     content_type |-> <<"i", "m", "g", "/", "p">>, uploader |-> <<"U">>,
     tags |-> None, description |-> None, body |-> <<1>>, content_length |-> 1]

\* a form without a file part has no filename, content type or payload
NoFile(f) ==
    [f EXCEPT !.file = FALSE, !.filename = <<>>, !.content_type = None, !.body = <<>>,
              !.content_length = 0]

\* the forms of the first request: every combination of the validated
\* fields and of the payload, its length declared as it is, and the
\* well-formed form with each tags and description field
FirstForms ==
    {f \in Forms : /\ f.tags = None /\ f.description = None
                   /\ f.content_length = Len(f.body)
                   /\ (f.file \/ f = NoFile(f))}
    \cup {f \in Forms : \E t \in TagFields, d \in Descriptions :
              f = [GoodForm EXCEPT !.tags = t, !.description = d]}

\* the query string of a list request: a parameter it does not have is None
NoQuery == [date_from |-> None, date_to |-> None, uploader |-> None, tags |-> None]

\* the body of a response: the items of a JSON body, or the bytes, the
\* media type and the download name of a file
NoBody == [items |-> <<>>, data |-> <<>>, mimetype |-> None, download_name |-> None]

NewRequest(op, form, target) ==
    [op |-> op, in |-> form, query |-> NoQuery, target |-> target, pc |-> "new",
     id |-> 0, key |-> NoKey, file_size |-> 0, upload_date |-> None, found |-> FALSE,
     late |-> FALSE, calls |-> <<>>, status |-> 0, error |-> "-", out |-> NoBody]

Targets == 0..MaxTarget

\* the requests that run beside the upload
OtherRequests == {NewRequest(op, GoodForm, t) : op \in {"delete", "get"}, t \in Targets}

\* requests are interchangeable: a workload lists them in a fixed order
Rank(q) ==
    (CASE q.op = "delete" -> 0 [] q.op = "get" -> 1 [] OTHER -> 2) * (MaxTarget + 1)
        + q.target

\* the forms of the upload that runs beside any other requests
RacingForms == {GoodForm, [GoodForm EXCEPT !.body = <<0, 1>>, !.content_length = 2]}

\* the requests of a run: an upload and the requests that follow it in the
\* list; an upload of any form runs beside a delete and gets of its image
Workloads ==
    {[r \in Req |-> IF r = 1 THEN NewRequest("upload", w[1], 0) ELSE w[2][r]] :
        w \in {v \in FirstForms \X [Req \ {1} -> OtherRequests] :
                /\ \A r, q \in Req \ {1} : r < q => Rank(v[2][r]) <= Rank(v[2][q])
                /\ \/ v[1] \in RacingForms
                   \/ \A r \in Req \ {1} :
                        v[2][r] = NewRequest(IF r = 2 THEN "delete" ELSE "get", GoodForm, 1)}}

NoRun == [pc |-> "off", image |-> <<>>, ctype |-> None, statusCode |-> 0]

Init ==
    /\ variant \in {"app", "server"}
    /\ table = << >>
    /\ bucket = << >>
    /\ issued = 0
    /\ now = 0
    /\ req \in Workloads
    /\ lam = [r \in Req |-> NoRun]

\* the request q after its call `name` to a store ended with outcome o
Called(q, name, o) == [q EXCEPT !.calls = Append(@, <<name, o>>)]

\* the request q at its next step
Goto(q, pc) == [q EXCEPT !.pc = pc]

\* the request q answered with a status and, for an error, its message
Response(q, status, error) ==
    [q EXCEPT !.pc = "done", !.status = status, !.error = error, !.out = NoBody]

\* the request q answered with a JSON body of these items
jsonify(q, items, status) ==
    [Response(q, status, "-") EXCEPT !.out = [NoBody EXCEPT !.items = items]]

\* the request q answered with a file
send_file(q, data, mimetype, download_name) ==
    [Response(q, 200, "-") EXCEPT
        !.out = [NoBody EXCEPT !.data = data, !.mimetype = mimetype,
                               !.download_name = download_name]]

\* history of a download: when it started, the upload that drew image_id had
\* its created response
Uploaded(image_id) ==
    \E u \in Req :
        /\ req[u].op = "upload" /\ req[u].id = image_id
        /\ req[u].pc = "done" /\ req[u].status \in {200, 201}

\* a generator that hands out the same id again
uuid4_repeated(n) == 1

\* uuid.uuid4(): an id no earlier call returned (n calls were made before)
uuid4(n) == n + 1

\* datetime.now(timezone.utc): the clock does not run backwards
Clock(t) == t = now \/ (t = now + 1 /\ now < MaxNow)

(* ------------------------- app.py: upload_image ----------------------- *)

\* a validation without the uploader check
upload_validation_no_uploader(f) ==
    IF ~f.file THEN "No file provided"
    ELSE IF f.filename = <<>> THEN "No file selected"
    ELSE IF ~Truthy(f.content_type) \/ ~startswith(f.content_type, image_prefix)
         THEN "Only image files are allowed"
    ELSE "ok"

\* the validation of upload_image: the error of the first check that
\* fails, "ok" when the form passes them all
upload_validation(f) ==
    IF ~f.file THEN "No file provided"
    ELSE IF f.filename = <<>> THEN "No file selected"
    ELSE IF ~Truthy(f.content_type) \/ ~startswith(f.content_type, image_prefix)
         THEN "Only image files are allowed"
    ELSE IF ~Truthy(f.uploader) THEN "Uploader name is required"
    ELSE "ok"

\* tags = request.form.get('tags', '')
form_tags(f) == IF f.tags = None THEN <<>> ELSE f.tags

\* a size taken from what the client declared
tell_content_length(f) == f.content_length

\* file.seek(0, 2); file.tell(): the position of the end of the stream
tell(f) == Len(f.body)

\* the metadata dict of upload_image
metadata(image_id, f, s3_key, file_size, upload_date) ==
    [BlankItem EXCEPT
        !.fields = UploadFields \cup {"s3_key"},
        !.id = image_id, !.filename = f.filename, !.s3_key = s3_key,
        !.file_size = file_size, !.file_type = f.content_type,
        !.uploader = f.uploader, !.tags = parse_tags(form_tags(f)),
        !.description = f.description, !.upload_date = upload_date]

\* an upload_image that does not look at the result of upload_to_s3
after_upload_to_s3_unchecked(q, res) ==
    IF res = "raise" THEN Response(q, 500, "Internal server error") ELSE Goto(q, "put_item")

\* what upload_image does with the result of upload_to_s3
after_upload_to_s3(q, res) ==
    IF res = "True" THEN Goto(q, "put_item")
    ELSE IF res = "False" THEN Response(q, 500, "Failed to upload image to S3")
    ELSE Response(q, 500, "Internal server error")

\* validation, uuid4, the S3 upload and the size of the stream
upload_image(r) ==
    /\ variant = "app" /\ req[r].op = "upload" /\ req[r].pc = "new"
    /\ UNCHANGED <<variant, table, now, lam>>
    /\ IF upload_validation(req[r].in) # "ok"
       THEN /\ req' = [req EXCEPT ![r] = Response(@, 400, upload_validation(req[r].in))]
            /\ UNCHANGED <<bucket, issued>>
       ELSE \E o \in Outcomes :
            LET image_id == uuid4(issued)
                s3_key == s3_key_of(image_id, req[r].in.filename)
            IN  /\ issued' = issued + 1
                /\ bucket' = IF o = "ok"
                             THEN PutObject(bucket, s3_key, req[r].in.body,
                                            req[r].in.content_type)
                             ELSE bucket
                /\ req' = [req EXCEPT ![r] =
                              after_upload_to_s3(
                                  Called([@ EXCEPT !.id = image_id, !.key = s3_key,
                                                   !.file_size = tell(req[r].in)],
                                         "upload_to_s3", o),
                                  upload_to_s3(o))]

\* the body of the 201 response of upload_image, built from the locals the
\* metadata was built from
upload_response(q) ==
    [metadata(q.id, q.in, NoKey, q.file_size, q.upload_date) EXCEPT
        !.fields = UploadFields \cup {"url"}]

\* an upload_image that goes on to the Processor when the insert failed
after_put_item_goes_on(q, res) ==
    IF res = "raise" THEN Response(q, 500, "Internal server error") ELSE Goto(q, "invoke")

\* what upload_image does with the result of put_item
after_put_item(q, res) ==
    IF res = "True" THEN Goto(q, "invoke")
    ELSE IF res = "False" THEN Goto(q, "rollback")
    ELSE Response(q, 500, "Internal server error")

\* the timestamp and aws_services.put_item(metadata)
upload_image_put_item(r) ==
    /\ variant = "app" /\ req[r].op = "upload" /\ req[r].pc = "put_item"
    /\ UNCHANGED <<variant, bucket, issued, lam>>
    /\ \E o \in Outcomes, t \in {now, now + 1} :
        /\ Clock(t) /\ now' = t
        /\ table' = IF o = "ok"
                    THEN PutItem(table, metadata(req[r].id, req[r].in, req[r].key,
                                                 req[r].file_size, isoformat(t)))
                    ELSE table
        /\ req' = [req EXCEPT ![r] =
                      after_put_item(Called([@ EXCEPT !.upload_date = isoformat(t)],
                                            "put_item", o),
                                     put_item(o))]

\* what upload_image does with the result of the rollback's delete_from_s3:
\* the returned value is ignored
after_rollback(q, res) ==
    IF res = "raise" THEN Response(q, 500, "Internal server error")
    ELSE Response(q, 500, "Failed to save metadata to DynamoDB")

\* the rollback: aws_services.delete_from_s3(s3_key)
upload_image_rollback(r) ==
    /\ variant = "app" /\ req[r].op = "upload" /\ req[r].pc = "rollback"
    /\ UNCHANGED <<variant, table, issued, now, lam>>
    /\ \E o \in Outcomes :
        /\ bucket' = IF o = "ok" THEN DeleteObject(bucket, req[r].key) ELSE bucket
        /\ req' = [req EXCEPT ![r] =
                      after_rollback(Called(@, "delete_from_s3", o), delete_from_s3(o))]

\* an upload_image whose Lambda invocation is outside any try/except
after_invoke_lambda_uncaught(q, res) ==
    IF res = "result" THEN Goto(q, "wait")
    ELSE IF res = "None" THEN jsonify(q, <<upload_response(q)>>, 201)
    ELSE Response(q, 500, "Internal server error")

\* what upload_image does with the result of invoke_lambda, inside its
\* try/except: the function runs, or the invocation failed and the upload
\* goes on to its response
after_invoke_lambda(q, res) ==
    IF res = "result" THEN Goto(q, "wait") ELSE jsonify(q, <<upload_response(q)>>, 201)

\* aws_services.invoke_lambda(Config.LAMBDA_FUNCTION_NAME, lambda_payload)
upload_image_invoke(r) ==
    /\ variant = "app" /\ req[r].op = "upload" /\ req[r].pc = "invoke"
    /\ UNCHANGED <<variant, table, bucket, issued, now>>
    /\ \E o \in Outcomes :
        /\ req' = [req EXCEPT ![r] =
                      after_invoke_lambda(Called(@, "invoke_lambda", o), invoke_lambda(o))]
        /\ lam' = IF o = "ok" THEN [lam EXCEPT ![r].pc = "get_object"] ELSE lam

\* the synchronous invocation returns the function's result, or the read
\* of the result times out (caught) while the function runs on
upload_image_return(r) ==
    /\ variant = "app" /\ req[r].op = "upload" /\ req[r].pc = "wait"
    /\ UNCHANGED <<variant, table, bucket, issued, now, lam>>
    /\ req' = [req EXCEPT ![r] = jsonify(@, <<upload_response(@)>>, 201)]

(* ---------------------- lambda_function.py ---------------------------- *)

\* Image.open: the payload decodes as an image when it starts with the
\* format's magic byte
decodes(body) == body # <<>> /\ body[1] = 1

\* image.size
image_size(body) == [width |-> Len(body), height |-> 1]

\* the thumbnail, re-encoded: the header byte alone
thumbnail(body) == <<body[1]>>

\* an update that writes the item anew, with the patch alone
update_item_replaces(t, image_id, size, thumbnail_key) ==
    PutItem(t, [BlankItem EXCEPT
                   !.fields = {"id"} \cup PatchFields,
                   !.id = image_id, !.width = size.width, !.height = size.height,
                   !.thumbnail_key = thumbnail_key, !.processed = TRUE])

\* table.update_item(Key, 'SET width, height, thumbnail_key, processed'):
\* DynamoDB UpdateItem creates the item when the key is absent
update_item(t, image_id, size, thumbnail_key) ==
    PutItem(t, [GetItem(t, image_id) EXCEPT
                   !.fields = @ \cup {"id"} \cup PatchFields,
                   !.id = image_id, !.width = size.width, !.height = size.height,
                   !.thumbnail_key = thumbnail_key, !.processed = TRUE])

\* the function ends with this result
Result(r, statusCode) ==
    lam' = [lam EXCEPT ![r].pc = "done", ![r].statusCode = statusCode,
                       ![r].image = <<>>, ![r].ctype = None]

\* s3_client.get_object and Image.open; upload_image always passes bucket,
\* s3_key and image_id, so the missing-parameter answer is never taken
lambda_handler(r) ==
    /\ lam[r].pc = "get_object"
    /\ UNCHANGED <<variant, table, bucket, issued, now, req>>
    /\ \E o \in Outcomes :
        IF o = "ok" /\ req[r].key \in DOMAIN bucket /\ decodes(bucket[req[r].key].Body)
        THEN lam' = [lam EXCEPT ![r].pc = "put_object",
                                ![r].image = bucket[req[r].key].Body,
                                ![r].ctype = bucket[req[r].key].ContentType]
        ELSE Result(r, 500)

\* a handler that goes on to the update without storing the thumbnail
lambda_handler_put_object_skipped(r) ==
    /\ lam[r].pc = "put_object"
    /\ UNCHANGED <<variant, table, bucket, issued, now, req>>
    /\ lam' = [lam EXCEPT ![r].pc = "update_item"]

\* s3_client.put_object of the thumbnail
lambda_handler_put_object(r) ==
    /\ lam[r].pc = "put_object"
    /\ UNCHANGED <<variant, table, issued, now, req>>
    /\ \E o \in Outcomes :
        IF o = "ok"
        THEN /\ bucket' = PutObject(bucket, thumbnail_key_of(req[r].key),
                                    thumbnail(lam[r].image), lam[r].ctype)
             /\ lam' = [lam EXCEPT ![r].pc = "update_item"]
        ELSE /\ UNCHANGED bucket
             /\ Result(r, 500)

\* table.update_item
lambda_handler_update_item(r) ==
    /\ lam[r].pc = "update_item"
    /\ UNCHANGED <<variant, bucket, issued, now, req>>
    /\ \E o \in Outcomes :
        IF o = "ok"
        THEN /\ table' = update_item(table, req[r].id, image_size(lam[r].image),
                                     thumbnail_key_of(req[r].key))
             /\ Result(r, 200)
        ELSE /\ UNCHANGED table
             /\ Result(r, 500)

(* ---------------------- app.py: get_image, delete_image --------------- *)

\* what aws_services.get_item returns: the item, or None
got_item(t, image_id, o) == IF get_item(o) = "Item" THEN GetItem(t, image_id) ELSE NoItem

\* handlers that do not check whether get_item returned an item
after_get_item_unchecked(q, res, item, pc) ==
    IF res = "raise" THEN Response(q, 500, "Internal server error")
    ELSE IF pc = "done"
         THEN jsonify([q EXCEPT !.found = TRUE],
                      <<[item EXCEPT !.fields = @ \cup {"url"}]>>, 200)
    ELSE Goto([q EXCEPT !.found = TRUE, !.key = item.s3_key], pc)

\* what get_image, download_image and delete_image do with the result of
\* get_item
after_get_item(q, res, item, pc) ==
    IF res = "raise" THEN Response(q, 500, "Internal server error")
    ELSE IF item = NoItem THEN Response(q, 404, "Image not found")
    ELSE IF pc = "done"
         THEN jsonify([q EXCEPT !.found = TRUE],
                      <<[item EXCEPT !.fields = @ \cup {"url"}]>>, 200)
    ELSE Goto([q EXCEPT !.found = TRUE, !.key = item.s3_key], pc)

\* get_image
get_image(r) ==
    /\ variant = "app" /\ req[r].op = "get" /\ req[r].pc = "new"
    /\ UNCHANGED <<variant, table, bucket, issued, now, lam>>
    /\ \E o \in Outcomes :
        req' = [req EXCEPT ![r] =
                   after_get_item(Called(@, "get_item", o), get_item(o),
                                  got_item(table, req[r].target, o), "done")]

\* delete_image: aws_services.get_item(image_id)
delete_image(r) ==
    /\ variant = "app" /\ req[r].op = "delete" /\ req[r].pc = "new"
    /\ UNCHANGED <<variant, table, bucket, issued, now, lam>>
    /\ \E o \in Outcomes :
        req' = [req EXCEPT ![r] =
                   after_get_item(Called(@, "get_item", o), get_item(o),
                                  got_item(table, req[r].target, o), "delete_from_s3")]

\* what delete_image does with the result of delete_from_s3: a failure
\* it is told of is logged
after_delete_from_s3(q, res) ==
    IF res = "raise" THEN Response(q, 500, "Internal server error")
    ELSE Goto(q, "delete_item")

\* delete_image: aws_services.delete_from_s3(s3_key); a key of None is
\* refused by the client with a parameter validation error
delete_image_from_s3(r) ==
    /\ variant = "app" /\ req[r].op = "delete" /\ req[r].pc = "delete_from_s3"
    /\ UNCHANGED <<variant, table, issued, now, lam>>
    /\ \E o \in Outcomes :
        LET oo == IF req[r].key = NoKey THEN "Exception" ELSE o
        IN  /\ bucket' = IF oo = "ok" THEN DeleteObject(bucket, req[r].key) ELSE bucket
            /\ req' = [req EXCEPT ![r] =
                          after_delete_from_s3(Called(@, "delete_from_s3", oo),
                                               delete_from_s3(oo))]

\* a delete_image that does not look at the result of delete_item
after_delete_item_unchecked(q, res) ==
    IF res = "raise" THEN Response(q, 500, "Internal server error") ELSE Response(q, 200, "-")

\* what delete_image does with the result of delete_item
after_delete_item(q, res) ==
    IF res = "True" THEN Response(q, 200, "-")
    ELSE IF res = "False" THEN Response(q, 500, "Failed to delete image metadata")
    ELSE Response(q, 500, "Internal server error")

\* delete_image: aws_services.delete_item(image_id)
delete_image_item(r) ==
    /\ variant = "app" /\ req[r].op = "delete" /\ req[r].pc = "delete_item"
    /\ UNCHANGED <<variant, bucket, issued, now, lam>>
    /\ \E o \in Outcomes :
        /\ table' = IF o = "ok" THEN DeleteItem(table, req[r].target) ELSE table
        /\ req' = [req EXCEPT ![r] =
                      after_delete_item(Called(@, "delete_item", o), delete_item(o))]

(* ------------------------- app.py: download_image -------------------- *)

\* download_image: aws_services.get_item(image_id), s3_key and filename (the
\* download name the response will carry)
download_image(r) ==
    /\ variant = "app" /\ req[r].op = "download" /\ req[r].pc = "new"
    /\ UNCHANGED <<variant, table, bucket, issued, now, lam>>
    /\ \E o \in Outcomes :
        LET item == got_item(table, req[r].target, o)
        IN  req' = [req EXCEPT ![r] =
                       after_get_item(Called([@ EXCEPT !.out.download_name = item.filename,
                                                       !.late = Uploaded(req[r].target)],
                                             "get_item", o),
                                      get_item(o), item, "download_from_s3")]

\* what download_image does with the result of download_from_s3: bytes
\* that are falsy (None, or no bytes at all) are a failed download
after_download_from_s3(q, res, file_data, content_type) ==
    IF res = "raise" THEN Response(q, 500, "Internal server error")
    ELSE IF res = "None" \/ file_data = <<>>
         THEN Response(q, 500, "Failed to download image from S3")
    ELSE send_file(q, file_data, content_type, q.out.download_name)

\* download_image: aws_services.download_from_s3(s3_key) and send_file; a
\* key of None is refused by the client with a parameter validation error,
\* a key the bucket does not have is the ClientError NoSuchKey
download_image_from_s3(r) ==
    /\ variant = "app" /\ req[r].op = "download" /\ req[r].pc = "download_from_s3"
    /\ UNCHANGED <<variant, table, bucket, issued, now, lam>>
    /\ \E o \in Outcomes :
        LET oo == IF req[r].key = NoKey THEN "Exception"
                  ELSE IF req[r].key \notin DOMAIN bucket THEN "ClientError"
                  ELSE o
            object == IF oo = "ok" THEN bucket[req[r].key]
                      ELSE [Body |-> <<>>, ContentType |-> None]
        IN  req' = [req EXCEPT ![r] =
                       after_download_from_s3(
                           Called(@, "download_from_s3", oo),
                           download_from_s3(oo), object.Body, object.ContentType)]

(* --------------------------- app.py: list_images ---------------------- *)

\* the elements of a list
Range(seq) == {seq[i] : i \in 1..Len(seq)}

\* the sequences that list every element of the set S once
Orderings(S) ==
    {f \in [1..Cardinality(S) -> S] : \A i, j \in 1..Cardinality(S) : f[i] = f[j] => i = j}

\* item.get('upload_date', '')
get_upload_date(item) == IF "upload_date" \in item.fields THEN item.upload_date ELSE <<>>

\* filters that require every search tag
filtered_all_tags(item, date_from, date_to, uploader, tags) ==
    /\ ~(Truthy(date_from) /\ str_lt(get_upload_date(item), date_from))
    /\ ~(Truthy(date_to) /\ str_lt(date_to, get_upload_date(item)))
    /\ ~(Truthy(uploader) /\ item.uploader # uploader)
    /\ Truthy(tags) =>
           \A tag \in Range(strip_nonempty(split(tags, <<>>))) : tag \in Range(item.tags)

\* the filters of list_images: the item is appended to filtered_items
filtered(item, date_from, date_to, uploader, tags) ==
    /\ ~(Truthy(date_from) /\ str_lt(get_upload_date(item), date_from))
    /\ ~(Truthy(date_to) /\ str_lt(date_to, get_upload_date(item)))
    /\ ~(Truthy(uploader) /\ item.uploader # uploader)
    /\ Truthy(tags) =>
           \E tag \in Range(strip_nonempty(split(tags, <<>>))) : tag \in Range(item.tags)

\* filtered_items
filtered_items(items, query) ==
    SelectSeq(items, LAMBDA item :
        filtered(item, query.date_from, query.date_to, query.uploader, query.tags))

\* a sort that leaves the items in the order of the scan
insert_desc_unsorted(sorted, item) == Append(sorted, item)

\* one step of the stable sort: item goes behind the items that are not
\* older than it
insert_desc(sorted, item) ==
    LET before == {i \in 0..Len(sorted) :
                      \A j \in 1..i : ~str_lt(get_upload_date(sorted[j]), get_upload_date(item))}
        at == CHOOSE i \in before : \A k \in before : k <= i
    IN  SubSeq(sorted, 1, at) \o <<item>> \o SubSeq(sorted, at + 1, Len(sorted))

\* filtered_items.sort(key=upload_date, reverse=True)
RECURSIVE sort_reverse(_, _)
sort_reverse(items, sorted) ==
    IF items = <<>> THEN sorted
    ELSE sort_reverse(Tail(items), insert_desc(sorted, Head(items)))

\* item['url'] = ... for each item
with_url(items) == [i \in 1..Len(items) |-> [items[i] EXCEPT !.fields = @ \cup {"url"}]]

\* a list_images that answers 404 when nothing is left to return
after_scan_items_not_found(q, res, items) ==
    IF res = "raise" THEN Response(q, 500, "Internal server error")
    ELSE IF filtered_items(items, q.query) = <<>> THEN Response(q, 404, "No images")
    ELSE jsonify(q, with_url(sort_reverse(filtered_items(items, q.query), <<>>)), 200)

\* what list_images does with the items scan_items returned
after_scan_items(q, res, items) ==
    IF res = "raise" THEN Response(q, 500, "Internal server error")
    ELSE jsonify(q, with_url(sort_reverse(filtered_items(items, q.query), <<>>)), 200)

\* list_images: aws_services.scan_items() returns the items in the order of
\* the scan, then the filters, the sort and the response
list_images(r) ==
    /\ variant = "app" /\ req[r].op = "list" /\ req[r].pc = "new"
    /\ UNCHANGED <<variant, table, bucket, issued, now, lam>>
    /\ \E o \in Outcomes, scan \in Orderings(DOMAIN table) :
        LET items == IF scan_items(o) = "Items"
                     THEN [i \in 1..Len(scan) |-> table[scan[i]]]
                     ELSE <<>>
        IN  req' = [req EXCEPT ![r] =
                       after_scan_items(Called(@, "scan_items", o), scan_items(o), items)]

(* ------------------------------ server.py ----------------------------- *)

\* a call to MongoDB or to the file system succeeds or raises
ServerOutcomes == {"ok", "Exception"}

\* file: UploadFile = File(...), uploader: str = Form(...): FastAPI answers
\* 422 before the handler runs when a required part is missing; a form
\* field that is the empty string counts as missing
request_validation(f) ==
    IF ~f.file \/ ~Truthy(f.uploader) THEN "Field required" ELSE "ok"

\* file_path.stat().st_size: the length of the file on the disk
st_size(b, file_path) == Len(b[file_path].Body)

\* the check in the body of the server's upload_image
server_upload_validation(f) ==
    IF ~Truthy(f.content_type) \/ ~startswith(f.content_type, image_prefix)
    THEN "Only image files are allowed"
    ELSE "ok"

\* doc = metadata.model_dump() with upload_date and file_path
doc(image_id, f, file_path, file_size, upload_date) ==
    [BlankItem EXCEPT
        !.fields = UploadFields \cup {"file_path"},
        !.id = image_id, !.filename = f.filename, !.file_path = file_path,
        !.file_size = file_size, !.file_type = f.content_type,
        !.uploader = f.uploader, !.tags = parse_tags(form_tags(f)),
        !.description = f.description, !.upload_date = upload_date]

\* ImageResponse(id=..., ..., url=...): the fields of the response model
ImageResponse(image) ==
    [image EXCEPT !.fields = UploadFields \cup {"url"}, !.file_path = NoKey]

\* what the server's upload_image does when the copy ends
after_copyfileobj(q, o) ==
    IF o = "ok" THEN Goto(q, "insert_one") ELSE Response(q, 500, "Failed to save file")

\* request validation, the content type check, the copy to the disk and
\* the size of the file; a copy that fails may leave the file it opened,
\* empty
server_upload_image(r) ==
    /\ variant = "server" /\ req[r].op = "upload" /\ req[r].pc = "new"
    /\ UNCHANGED <<variant, table, now, lam>>
    /\ IF request_validation(req[r].in) # "ok"
       THEN /\ req' = [req EXCEPT ![r] = Response(@, 422, request_validation(req[r].in))]
            /\ UNCHANGED <<bucket, issued>>
       ELSE IF server_upload_validation(req[r].in) # "ok"
       THEN /\ req' = [req EXCEPT ![r] =
                          Response(@, 400, server_upload_validation(req[r].in))]
            /\ UNCHANGED <<bucket, issued>>
       ELSE \E o \in ServerOutcomes, opened \in BOOLEAN :
            LET file_path == file_path_of(0 - uuid4(issued), req[r].in.filename)
            IN  /\ o = "ok" => opened
                /\ issued' = issued + 1
                /\ bucket' = IF o = "ok"
                             THEN PutObject(bucket, file_path, req[r].in.body, None)
                             ELSE IF opened THEN PutObject(bucket, file_path, <<>>, None)
                             ELSE bucket
                /\ req' = [req EXCEPT ![r] =
                              after_copyfileobj(
                                  Called([@ EXCEPT
                                             !.key = file_path,
                                             !.file_size =
                                                 IF o = "ok" THEN st_size(bucket', file_path)
                                                 ELSE 0],
                                         "copyfileobj", o), o)]

\* what the server's upload_image does when insert_one ends: an exception
\* leaves the handler
after_insert_one(q, o) ==
    IF o = "ok"
    THEN jsonify(q, <<ImageResponse(doc(q.id, q.in, q.key, q.file_size, q.upload_date))>>, 200)
    ELSE Response(q, 500, "Internal Server Error")

\* ImageMetadata(...) with its uuid4 and timestamp, and db.images.insert_one
server_upload_image_insert_one(r) ==
    /\ variant = "server" /\ req[r].op = "upload" /\ req[r].pc = "insert_one"
    /\ UNCHANGED <<variant, bucket, issued, lam>>
    /\ \E o \in ServerOutcomes, t \in {now, now + 1} :
        LET image_id == 0 - req[r].key.uid
        IN  /\ Clock(t) /\ now' = t
            /\ table' = IF o = "ok"
                        THEN PutItem(table, doc(image_id, req[r].in, req[r].key,
                                                req[r].file_size, isoformat(t)))
                        ELSE table
            /\ req' = [req EXCEPT ![r] =
                          after_insert_one(
                              Called([@ EXCEPT !.id = image_id,
                                               !.upload_date = isoformat(t)],
                                     "insert_one", o), o)]

\* what the server's get_image and delete_image do when find_one ends
after_find_one(q, o, image, pc) ==
    IF o # "ok" THEN Response(q, 500, "Internal Server Error")
    ELSE IF image = NoItem THEN Response(q, 404, "Image not found")
    ELSE IF pc = "done"
         THEN jsonify([q EXCEPT !.found = TRUE], <<ImageResponse(image)>>, 200)
    ELSE Goto([q EXCEPT !.found = TRUE, !.key = image.file_path], pc)

\* the server's get_image
server_get_image(r) ==
    /\ variant = "server" /\ req[r].op = "get" /\ req[r].pc = "new"
    /\ UNCHANGED <<variant, table, bucket, issued, now, lam>>
    /\ \E o \in ServerOutcomes :
        req' = [req EXCEPT ![r] =
                   after_find_one(Called(@, "find_one", o), o,
                                  GetItem(table, req[r].target), "done")]

\* what the server's download_image does when find_one ends and it has
\* looked for the file
after_exists(q, o, image, exists) ==
    IF o # "ok" THEN Response(q, 500, "Internal Server Error")
    ELSE IF image = NoItem THEN Response(q, 404, "Image not found")
    ELSE IF ~exists
         THEN Response(Called([q EXCEPT !.found = TRUE], "exists", "ok"), 404,
                       "Image file not found on disk")
    ELSE Goto(Called([q EXCEPT !.found = TRUE, !.key = image.file_path,
                               !.out.download_name = image.filename,
                               !.out.mimetype = guess_type(image.file_path.tail)],
                     "exists", "ok"),
              "FileResponse")

\* the server's download_image: db.images.find_one, file_path.exists() and
\* the media type guessed from the path
server_download_image(r) ==
    /\ variant = "server" /\ req[r].op = "download" /\ req[r].pc = "new"
    /\ UNCHANGED <<variant, table, bucket, issued, now, lam>>
    /\ \E o \in ServerOutcomes :
        LET image == GetItem(table, req[r].target)
        IN  req' = [req EXCEPT ![r] =
                       after_exists(Called([@ EXCEPT !.late = Uploaded(req[r].target)],
                                           "find_one", o), o, image,
                                    image.file_path \in DOMAIN bucket)]

\* the server's download_image: the FileResponse it returned is sent; a
\* file that is gone by then, or cannot be read, is a server error
server_download_image_FileResponse(r) ==
    /\ variant = "server" /\ req[r].op = "download" /\ req[r].pc = "FileResponse"
    /\ UNCHANGED <<variant, table, bucket, issued, now, lam>>
    /\ \E o \in ServerOutcomes :
        LET oo == IF req[r].key \in DOMAIN bucket THEN o ELSE "Exception"
        IN  req' = [req EXCEPT ![r] =
                       IF oo = "ok"
                       THEN send_file(Called(@, "FileResponse", oo),
                                      bucket[req[r].key].Body, req[r].out.mimetype,
                                      req[r].out.download_name)
                       ELSE Response(Called(@, "FileResponse", oo), 500,
                                     "Internal Server Error")]

\* the date checks of the server's list_images: the detail of the first
\* date that datetime.fromisoformat refuses
list_validation(query) ==
    IF Truthy(query.date_from) /\ ~fromisoformat_ok(query.date_from)
    THEN "Invalid date_from format. Use ISO format."
    ELSE IF Truthy(query.date_to) /\ ~fromisoformat_ok(query.date_to)
    THEN "Invalid date_to format. Use ISO format."
    ELSE "ok"

\* the document img matches the MongoDB query built by list_images:
\* upload_date $gte / $lte the re-formatted dates (compared as strings),
\* uploader equal, tags $in tags_list
find(img, query) ==
    /\ Truthy(query.date_from) =>
           ~str_lt(img.upload_date, fromisoformat_isoformat(query.date_from))
    /\ Truthy(query.date_to) =>
           ~str_lt(fromisoformat_isoformat(query.date_to), img.upload_date)
    /\ Truthy(query.uploader) => img.uploader = query.uploader
    /\ Truthy(query.tags) =>
           \E tag \in Range(img.tags) : tag \in Range(strip_nonempty(split(query.tags, <<>>)))

\* .sort("upload_date", -1): the cursor yields the documents newest first
sorted_desc(images) ==
    \A i, j \in 1..Len(images) :
        i < j => ~str_lt(images[i].upload_date, images[j].upload_date)

\* .to_list(1000)
to_list_length == 1000

to_list(images) ==
    SubSeq(images, 1, IF Len(images) < to_list_length THEN Len(images) ELSE to_list_length)

\* what the server's list_images does when the query ends
after_find(q, o, images) ==
    IF o # "ok" THEN Response(q, 500, "Internal Server Error")
    ELSE jsonify(q, [i \in 1..Len(images) |-> ImageResponse(images[i])], 200)

\* the server's list_images: the date checks, the query, find, sort and
\* to_list, and the response
server_list_images(r) ==
    /\ variant = "server" /\ req[r].op = "list" /\ req[r].pc = "new"
    /\ UNCHANGED <<variant, table, bucket, issued, now, lam>>
    /\ IF list_validation(req[r].query) # "ok"
       THEN req' = [req EXCEPT ![r] = Response(@, 400, list_validation(req[r].query))]
       ELSE \E o \in ServerOutcomes,
               cursor \in Orderings({i \in DOMAIN table : find(table[i], req[r].query)}) :
            LET images == [i \in 1..Len(cursor) |-> table[cursor[i]]]
            IN  /\ sorted_desc(images)
                /\ req' = [req EXCEPT ![r] =
                              after_find(Called(@, "find", o), o, to_list(images))]

\* the server's delete_image: db.images.find_one
server_delete_image(r) ==
    /\ variant = "server" /\ req[r].op = "delete" /\ req[r].pc = "new"
    /\ UNCHANGED <<variant, table, bucket, issued, now, lam>>
    /\ \E o \in ServerOutcomes :
        req' = [req EXCEPT ![r] =
                   after_find_one(Called(@, "find_one", o), o,
                                  GetItem(table, req[r].target), "unlink")]

\* the server's delete_image: file_path.unlink() when the file exists; a
\* failure is logged
server_delete_image_unlink(r) ==
    /\ variant = "server" /\ req[r].op = "delete" /\ req[r].pc = "unlink"
    /\ UNCHANGED <<variant, table, issued, now, lam>>
    /\ \E o \in ServerOutcomes :
        /\ o = "Exception" => req[r].key \in DOMAIN bucket
        /\ bucket' = IF o = "ok" THEN DeleteObject(bucket, req[r].key) ELSE bucket
        /\ req' = [req EXCEPT ![r] = Goto(Called(@, "unlink", o), "delete_one")]

\* what the server's delete_image does when delete_one ends
after_delete_one(q, o, deleted_count) ==
    IF o # "ok" THEN Response(q, 500, "Internal Server Error")
    ELSE IF deleted_count = 0 THEN Response(q, 500, "Failed to delete image from database")
    ELSE Response(q, 200, "-")

\* the server's delete_image: db.images.delete_one and result.deleted_count
server_delete_image_delete_one(r) ==
    /\ variant = "server" /\ req[r].op = "delete" /\ req[r].pc = "delete_one"
    /\ UNCHANGED <<variant, bucket, issued, now, lam>>
    /\ \E o \in ServerOutcomes :
        /\ table' = IF o = "ok" THEN DeleteItem(table, req[r].target) ELSE table
        /\ req' = [req EXCEPT ![r] =
                      after_delete_one(Called(@, "delete_one", o), o,
                                       IF req[r].target \in DOMAIN table THEN 1 ELSE 0)]

(* --------------------------- the specification ------------------------ *)

Next ==
    \E r \in Req :
        \/ upload_image(r)
        \/ upload_image_put_item(r)
        \/ upload_image_rollback(r)
        \/ upload_image_invoke(r)
        \/ upload_image_return(r)
        \/ lambda_handler(r)
        \/ lambda_handler_put_object(r)
        \/ lambda_handler_update_item(r)
        \/ get_image(r)
        \/ delete_image(r)
        \/ delete_image_from_s3(r)
        \/ delete_image_item(r)
        \/ server_upload_image(r)
        \/ server_upload_image_insert_one(r)
        \/ server_get_image(r)
        \/ server_delete_image(r)
        \/ server_delete_image_unlink(r)
        \/ server_delete_image_delete_one(r)

Spec == Init /\ [][Next]_vars

(* ----------------------- uploads and downloads ------------------------ *)

\* the forms of an upload whose image is downloaded: a payload of each
\* length, a filename with and without an extension
DownloadForms ==
    {[GoodForm EXCEPT !.filename = n, !.body = b, !.content_length = Len(b)] :
        n \in {<<"A", ".", "P">>, <<"b">>}, b \in Bodies}

\* the requests that run beside that upload
ReadRequests ==
    {NewRequest(op, GoodForm, t) : op \in {"delete", "get", "download"}, t \in Targets}

\* an upload, and deletes, gets and downloads in a fixed order
DownloadWorkloads ==
    {[r \in Req |-> IF r = 1 THEN NewRequest("upload", w[1], 0) ELSE w[2][r]] :
        w \in {v \in DownloadForms \X [Req \ {1} -> ReadRequests] :
                \A r, q \in Req \ {1} : r < q => Rank(v[2][r]) <= Rank(v[2][q])}}

DownloadInit ==
    /\ variant \in {"app", "server"}
    /\ table = << >>
    /\ bucket = << >>
    /\ issued = 0
    /\ now = 0
    /\ req \in DownloadWorkloads
    /\ lam = [r \in Req |-> NoRun]

DownloadNext ==
    \/ Next
    \/ \E r \in Req :
        \/ download_image(r)
        \/ download_image_from_s3(r)
        \/ server_download_image(r)
        \/ server_download_image_FileResponse(r)

Download == DownloadInit /\ [][DownloadNext]_vars

(* ------------------------ the fields of an upload --------------------- *)

\* every tags field of up to MaxTagLen characters, and "a, b , ,c"
TagTexts ==
    UNION {[1..n -> {"a", ",", " "}] : n \in 0..MaxTagLen}
    \cup {<<"a", ",", " ", "b", " ", ",", " ", ",", "c">>}

\* the forms of an upload with each tags field, or with none, and with each
\* payload under each declared length
FieldForms ==
    {[GoodForm EXCEPT !.tags = t] : t \in TagTexts \cup {None}}
    \cup {[GoodForm EXCEPT !.body = b, !.content_length = n] :
              b \in Bodies, n \in ContentLengths}

\* the upload, a delete of its image and gets of it
FieldWorkloads ==
    {[r \in Req |->
        IF r = 1 THEN NewRequest("upload", f, 0)
        ELSE NewRequest(IF r = 2 THEN "delete" ELSE "get", GoodForm, 1)] : f \in FieldForms}

FieldsInit ==
    /\ variant \in {"app", "server"}
    /\ table = << >>
    /\ bucket = << >>
    /\ issued = 0
    /\ now = 0
    /\ req \in FieldWorkloads
    /\ lam = [r \in Req |-> NoRun]

Fields == FieldsInit /\ [][Next]_vars

(* --------------------------- uploads and lists ------------------------ *)

\* the forms of the uploads listed beside the first one: an uploader that
\* differs in case, and an upload without tags
GalleryForms ==
    {[GoodForm EXCEPT !.uploader = <<"u">>, !.tags = <<"a", ",", " ", ",", "b", " ">>],
     GoodForm}

\* date filters: none, hour 1 as written by isoformat, the same hour
\* written with Z, hour 0 written in the offset +2, and a malformed one
DateFilters == {None, <<"1", "+", "0">>, <<"1", "Z">>, <<"2", "+", "2">>, <<"x">>}

\* tags filters: none, one tag, two tags of which one is unknown, an unknown
\* tag, and separators alone
TagFilters == {None, <<"a">>, <<"c", ",", " ", "b">>, <<"c">>, <<" ", ",">>}

\* the query strings of a list request: the filters of one category, and
\* filters of several categories at once
Queries ==
    {[NoQuery EXCEPT !.date_from = d] : d \in DateFilters}
    \cup {[NoQuery EXCEPT !.date_to = d] : d \in {<<"1", "+", "0">>, <<"x">>}}
    \cup {[NoQuery EXCEPT !.tags = t] : t \in TagFilters}
    \cup {[NoQuery EXCEPT !.uploader = <<"U">>, !.tags = t] : t \in {None, <<"a">>}}
    \cup {[date_from |-> <<"0", "+", "0">>, date_to |-> <<"1", "+", "0">>,
           uploader |-> <<"U">>, tags |-> <<"a">>],
          [date_from |-> <<"x">>, date_to |-> <<"x">>, uploader |-> None, tags |-> None]}

NewList(query) == [NewRequest("list", GoodForm, 0) EXCEPT !.query = query]

\* the requests that come between the first upload and the list: uploads,
\* and deletes of the first image
GalleryRequests ==
    {NewRequest("upload", f, 0) : f \in GalleryForms} \cup {NewRequest("delete", GoodForm, 1)}

\* a tagged upload, more uploads or deletes, and a list
GalleryWorkloads ==
    {[r \in Req |->
        IF r = 1 THEN NewRequest("upload", [GoodForm EXCEPT !.tags = w[1]], 0)
        ELSE IF r = MaxReq THEN NewList(w[3])
        ELSE w[2][r]] :
        w \in (TagFields \ {None}) \X [Req \ {1, MaxReq} -> GalleryRequests] \X Queries}

GalleryInit ==
    /\ variant \in {"app", "server"}
    /\ table = << >>
    /\ bucket = << >>
    /\ issued = 0
    /\ now = 0
    /\ req \in GalleryWorkloads
    /\ lam = [r \in Req |-> NoRun]

\* the steps of uploads, deletes and lists; the Processor runs the uploads
\* start are not followed (they leave upload_date, uploader and tags alone)
GalleryNext ==
    \E r \in Req :
        \/ upload_image(r)
        \/ upload_image_put_item(r)
        \/ upload_image_rollback(r)
        \/ upload_image_invoke(r)
        \/ upload_image_return(r)
        \/ delete_image(r)
        \/ delete_image_from_s3(r)
        \/ delete_image_item(r)
        \/ list_images(r)
        \/ server_upload_image(r)
        \/ server_upload_image_insert_one(r)
        \/ server_delete_image(r)
        \/ server_delete_image_unlink(r)
        \/ server_delete_image_delete_one(r)
        \/ server_list_images(r)

Gallery == GalleryInit /\ [][GalleryNext]_vars

(* --------------------------- uploads and deletes ---------------------- *)

\* uploads of an image the Processor decodes and of one it does not, and
\* deletes of the images
LifecycleRequests ==
    {NewRequest("upload", f, 0) : f \in RacingForms}
    \cup {NewRequest("delete", GoodForm, t) : t \in Targets \ {0}}

\* an upload, a delete, and more deletes and uploads in a fixed order
LifecycleWorkloads ==
    {[r \in Req |-> IF r = 1 THEN NewRequest("upload", w[1], 0) ELSE w[2][r]] :
        w \in {v \in RacingForms \X [Req \ {1} -> LifecycleRequests] :
                /\ v[2][2].op = "delete"
                /\ \A r, q \in Req \ {1} : r < q => Rank(v[2][r]) <= Rank(v[2][q])}}

LifecycleInit ==
    /\ variant \in {"app", "server"}
    /\ table = << >>
    /\ bucket = << >>
    /\ issued = 0
    /\ now = 0
    /\ req \in LifecycleWorkloads
    /\ lam = [r \in Req |-> NoRun]

\* the steps of uploads, of the Processor runs they start, and of deletes
LifecycleNext ==
    \E r \in Req :
        \/ upload_image(r)
        \/ upload_image_put_item(r)
        \/ upload_image_rollback(r)
        \/ upload_image_invoke(r)
        \/ upload_image_return(r)
        \/ lambda_handler(r)
        \/ lambda_handler_put_object(r)
        \/ lambda_handler_update_item(r)
        \/ delete_image(r)
        \/ delete_image_from_s3(r)
        \/ delete_image_item(r)
        \/ server_upload_image(r)
        \/ server_upload_image_insert_one(r)
        \/ server_delete_image(r)
        \/ server_delete_image_unlink(r)
        \/ server_delete_image_delete_one(r)

Lifecycle == LifecycleInit /\ [][LifecycleNext]_vars

(* ------------------------- uploads and every route ------------------- *)

\* the requests that read or delete the image of the upload
FrameRequests == {NewRequest(op, GoodForm, 1) : op \in {"delete", "get", "download"}}

\* the query strings of the list that runs beside them
FrameQueries == {NoQuery, [NoQuery EXCEPT !.tags = <<"a">>]}

\* an upload, requests for its image in a fixed order, and a list
FrameWorkloads ==
    {[r \in Req |->
        IF r = 1 THEN NewRequest("upload", w[1], 0)
        ELSE IF r = MaxReq THEN NewList(w[3])
        ELSE w[2][r]] :
        w \in {v \in RacingForms \X [Req \ {1, MaxReq} -> FrameRequests] \X FrameQueries :
                \A r, q \in Req \ {1, MaxReq} : r < q => Rank(v[2][r]) <= Rank(v[2][q])}}

FrameInit ==
    /\ variant \in {"app", "server"}
    /\ table = << >>
    /\ bucket = << >>
    /\ issued = 0
    /\ now = 0
    /\ req \in FrameWorkloads
    /\ lam = [r \in Req |-> NoRun]

\* the steps of every route and of the Processor
FrameNext ==
    \/ DownloadNext
    \/ \E r \in Req :
        \/ list_images(r)
        \/ server_list_images(r)

Frame == FrameInit /\ [][FrameNext]_vars

(* ------------------------------ properties ---------------------------- *)

\* the request q made the call `name` and it ended with an outcome of `os`
HasCall(q, name, os) ==
    \E i \in 1..Len(q.calls) : q.calls[i][1] = name /\ q.calls[i][2] \in os

\* the position of the first call `name` of q, 0 when q never made it
FirstCall(q, name) ==
    IF HasCall(q, name, Outcomes)
    THEN CHOOSE i \in 1..Len(q.calls) :
            q.calls[i][1] = name /\ \A j \in 1..(i - 1) : q.calls[j][1] # name
    ELSE 0

Failures == {"ClientError", "Exception"}

IsUpload(r) == req[r].op = "upload"

IsDelete(r) == req[r].op = "delete"

\* q has its response, and it is the created one (201 from app.py, 200 from
\* server.py)
Created(q) == q.pc = "done" /\ q.status \in {200, 201}

\* the request r gets its response in this step
Answers(r) == req[r].pc # "done" /\ req'[r].pc = "done"

\* the request r takes its first step in this step
Starts(r) == req[r].pc = "new" /\ req'[r].pc # "new"

\* the blob key of a record
BlobKey(item) == IF variant = "app" THEN item.s3_key ELSE item.file_path

\* in the stores t and b: the record of the upload q, and under its blob key
\* the bytes q uploaded
Stored(t, b, q) ==
    /\ q.id \in DOMAIN t
    /\ BlobKey(t[q.id]) \in DOMAIN b
    /\ b[BlobKey(t[q.id])].Body = q.in.body

\* a delete request has looked up the record of image_id and found it
DeleteFound(image_id) ==
    \E d \in Req : IsDelete(d) /\ req[d].target = image_id /\ req[d].found

\* C1 as stated: whenever an upload answers created with id X, at that
\* moment the Metadata Store holds record X and the Blob Store holds the
\* uploaded bytes under the record's blob key.
C1_CreatedImpliesStored ==
    [][\A r \in Req :
          (IsUpload(r) /\ Answers(r) /\ Created(req'[r]))
              => Stored(table', bucket', req'[r])]_vars

\* C1 as amended: whenever an upload answers created with id X and no
\* delete request has found record X before that answer, at that moment the
\* Metadata Store holds record X and the Blob Store holds the uploaded bytes
\* under the record's blob key.
C1_CreatedImpliesStoredUnlessDeleted ==
    [][\A r \in Req :
          (IsUpload(r) /\ Answers(r) /\ Created(req'[r]) /\ ~DeleteFound(req'[r].id))
              => Stored(table', bucket', req'[r])]_vars

\* an upload answered 201 after its Processor run ended, record and blob
\* in place
C1_Witness ==
    \E r \in Req :
        /\ IsUpload(r) /\ Created(req[r]) /\ variant = "app"
        /\ lam[r].pc = "done" /\ ~DeleteFound(req[r].id)
        /\ Stored(table, bucket, req[r])

\* the Metadata Store insert of the upload q failed
InsertFailed(q) ==
    HasCall(q, "put_item", Failures) \/ HasCall(q, "insert_one", Failures)

\* C2: an upload whose Metadata Store insert failed, for any kind of
\* failure, has attempted to delete the blob it wrote, answers 500 and
\* leaves no record of its id; when that delete succeeded the blob is gone.
C2_InsertFailureRollsBack ==
    \A r \in Req :
        (IsUpload(r) /\ req[r].pc = "done" /\ InsertFailed(req[r]))
            => /\ req[r].status = 500
               /\ req[r].id \notin DOMAIN table
               /\ HasCall(req[r], "delete_from_s3", Outcomes)
               /\ HasCall(req[r], "delete_from_s3", {"ok"})
                      => req[r].key \notin DOMAIN bucket

\* the Blob Store write of the upload q failed
BlobWriteFailed(q) ==
    HasCall(q, "upload_to_s3", Failures) \/ HasCall(q, "copyfileobj", Failures)

\* C3: an upload whose Blob Store write failed answers 500, inserts no
\* record (it makes no insert call, and no record has its blob key) and does
\* not invoke the Processor.
C3_BlobWriteFailureAborts ==
    \A r \in Req :
        (IsUpload(r) /\ BlobWriteFailed(req[r]))
            => /\ req[r].pc = "done" /\ req[r].status = 500
               /\ Len(req[r].calls) = 1
               /\ \A i \in DOMAIN table : BlobKey(table[i]) # req[r].key
               /\ lam[r].pc = "off"

\* an upload answered 500 after its blob write failed
C3_Witness ==
    \E r \in Req : IsUpload(r) /\ BlobWriteFailed(req[r]) /\ req[r].status = 500

\* the form has no uploader field, or an empty one
NoUploader(f) == f.uploader = None \/ f.uploader = <<>>

NotImage(f) ==
    \/ f.content_type = None
    \/ Len(f.content_type) < 4
    \/ <<f.content_type[1], f.content_type[2], f.content_type[3], f.content_type[4]>>
           # <<"i", "m", "g", "/">>

\* C5: an upload of a file whose declared content type is absent or does not
\* begin with image/ answers 400, whatever the payload and the other fields
\* are, and calls neither store.
C5_NotImageRejected ==
    \A r \in Req :
        (/\ IsUpload(r) /\ req[r].in.file /\ req[r].in.filename # <<>>
         /\ NotImage(req[r].in) /\ req[r].pc # "new")
            => /\ req[r].pc = "done" /\ req[r].status = 400
               /\ req[r].calls = <<>>

\* C6: the error of an upload is that of the first failing check, in the
\* order file part with a filename, content type, uploader, each with 400.
C6_FirstFailingCheck ==
    \A r \in Req :
        (IsUpload(r) /\ req[r].pc # "new")
            => IF ~req[r].in.file \/ req[r].in.filename = <<>>
               THEN /\ req[r].status = 400
                    /\ req[r].error \in {"No file provided", "No file selected"}
               ELSE IF NotImage(req[r].in)
               THEN req[r].status = 400 /\ req[r].error = "Only image files are allowed"
               ELSE IF NoUploader(req[r].in)
               THEN req[r].status = 400 /\ req[r].error = "Uploader name is required"
               ELSE req[r].status # 400

\* the blob write and the insert of the upload q succeeded
InsertDone(q) ==
    /\ HasCall(q, "upload_to_s3", {"ok"}) \/ HasCall(q, "copyfileobj", {"ok"})
    /\ HasCall(q, "put_item", {"ok"}) \/ HasCall(q, "insert_one", {"ok"})

\* every record and every blob of this state is in the next one
NothingRemoved ==
    /\ DOMAIN table \subseteq DOMAIN table'
    /\ \A k \in DOMAIN bucket : k \in DOMAIN bucket' /\ bucket'[k].Body = bucket[k].Body

\* C7: an upload whose blob write and insert succeeded answers created and
\* nothing else, whatever the Processor invocation does, and no step of the
\* invocation or of the Processor run removes a record or a blob.
C7_ProcessorFailureIgnored ==
    [][\A r \in Req :
          /\ (IsUpload(r) /\ InsertDone(req[r]) /\ Answers(r)) => Created(req'[r])
          /\ (IsUpload(r) /\ InsertDone(req[r]) /\ req'[r] # req[r]) => NothingRemoved
          /\ lam'[r] # lam[r] => NothingRemoved]_vars

\* uploads answered 201 with record and blob in place after the Processor
\* run failed
C7_Witness ==
    \E r \in Req :
        /\ IsUpload(r) /\ Created(req[r]) /\ lam[r].statusCode = 500
        /\ Stored(table, bucket, req[r])

\* a delete of image_id has answered 200
Deleted(image_id) ==
    \E d \in Req :
        IsDelete(d) /\ req[d].target = image_id /\ req[d].pc = "done" /\ req[d].status = 200

\* no upload has drawn image_id
NeverIssued(image_id) == \A u \in Req : IsUpload(u) => req[u].id # image_id

\* C8: a get or a delete that starts after a delete of its id answered 200,
\* or whose id was never issued, and whose lookup does not fail, answers 404.
C8_DeletedStaysGone ==
    [][\A r \in Req :
          (/\ req[r].op \in {"get", "delete"} /\ Starts(r)
           /\ Deleted(req[r].target) \/ NeverIssued(req[r].target)
           /\ req'[r].calls[1][2] = "ok")
              => req'[r].pc = "done" /\ req'[r].status = 404]_vars

\* the blob delete of the delete request q failed
BlobDeleteFailed(q) ==
    HasCall(q, "delete_from_s3", Failures) \/ HasCall(q, "unlink", Failures)

\* C9: a delete request deletes the blob before the record, and one whose
\* blob delete failed still goes on to delete the record: when it has its
\* answer it has made the record delete call, and when that call removed the
\* record the answer is 200.
C9_BlobDeleteFailureContinues ==
    \A r \in Req :
        (IsDelete(r) /\ req[r].pc = "done" /\ BlobDeleteFailed(req[r]))
            => /\ HasCall(req[r], "delete_item", Outcomes)
                  \/ HasCall(req[r], "delete_one", Outcomes)
               /\ HasCall(req[r], "delete_item", {"ok"}) => req[r].status = 200

\* the record delete of the delete request r fails in this step: the call
\* raises, or server.py finds deleted_count to be 0
RecordDeleteFails(r) ==
    /\ IsDelete(r) /\ req[r].pc \in {"delete_item", "delete_one"} /\ req'[r] # req[r]
    /\ \/ req'[r].calls[Len(req'[r].calls)][2] \in Failures
       \/ variant = "server" /\ req[r].target \notin DOMAIN table

\* C10 as stated: when the record delete of a delete request fails, the
\* request answers 500 and the record is still in the Metadata Store.
C10_FailedDeleteKeepsRecord ==
    [][\A r \in Req :
          RecordDeleteFails(r)
              => /\ req'[r].pc = "done" /\ req'[r].status = 500
                 /\ req[r].target \in DOMAIN table']_vars

\* C10 as amended: when the record delete of a delete request fails (the
\* call raises, or server.py finds deleted_count to be 0), the request
\* answers 500 and the step changes neither store: a record not removed by
\* another request is still there, and the blob delete is not undone.
C10_FailedDeleteChangesNothing ==
    [][\A r \in Req :
          RecordDeleteFails(r)
              => /\ req'[r].pc = "done" /\ req'[r].status = 500
                 /\ table' = table /\ bucket' = bucket]_vars

\* a delete answered 500 after its record delete failed: the record is in
\* the store, the blob it deleted is not
C10_Witness ==
    \E r \in Req :
        /\ IsDelete(r) /\ req[r].pc = "done" /\ req[r].status = 500
        /\ HasCall(req[r], "delete_from_s3", {"ok"}) \/ HasCall(req[r], "unlink", {"ok"})
        /\ HasCall(req[r], "delete_item", Failures) \/ HasCall(req[r], "delete_one", Failures)
        /\ req[r].target \in DOMAIN table
        /\ req[r].key \notin DOMAIN bucket

\* no upload has inserted a record of image_id
NeverInserted(image_id) ==
    \A u \in Req :
        (IsUpload(u) /\ req[u].id = image_id)
            => ~(HasCall(req[u], "put_item", {"ok"}) \/ HasCall(req[u], "insert_one", {"ok"}))

\* C11: a get or a download of an id of which no upload has inserted a
\* record, whose lookup in the Metadata Store does not fail, answers 404 in
\* that step, and the lookup is its only call: it makes no call to the Blob
\* Store, which is unchanged.
C11_UnknownIdNotFound ==
    [][\A r \in Req :
          (/\ req[r].op \in {"get", "download"} /\ Starts(r)
           /\ NeverInserted(req[r].target)
           /\ req'[r].calls[1][2] = "ok")
              => /\ req'[r].pc = "done" /\ req'[r].status = 404
                 /\ Len(req'[r].calls) = 1
                 /\ bucket' = bucket]_vars

\* a get and a download of an id never issued both answered 404 beside an
\* upload that stored its image
C11_Witness ==
    /\ variant = "app"
    /\ \E u \in Req : IsUpload(u) /\ Created(req[u]) /\ Stored(table, bucket, req[u])
    /\ \E g, d \in Req :
        /\ req[g].op = "get" /\ req[d].op = "download"
        /\ req[g].target = 0 /\ req[d].target = 0
        /\ req[g].status = 404 /\ req[d].status = 404
        /\ req[d].calls = <<<<"get_item", "ok">>>>

\* the download request r reads the blob of a record it found in this step,
\* and the blob is not in the Blob Store or the read fails
BlobUnreadable(r) ==
    /\ req[r].op = "download" /\ req'[r] # req[r]
    /\ \/ /\ req[r].pc \in {"download_from_s3", "FileResponse"}
          /\ req'[r].calls[Len(req'[r].calls)][2] \in Failures
       \/ /\ variant = "server" /\ req[r].pc = "new"
          /\ req'[r].calls[1][2] = "ok"
          /\ req[r].target \in DOMAIN table
          /\ table[req[r].target].file_path \notin DOMAIN bucket

\* C12: a download that found the record and whose blob is missing from
\* the Blob Store, or cannot be read, answers 500 in that step.
C12_MissingBlobIsServerError ==
    [][\A r \in Req :
          BlobUnreadable(r) => req'[r].pc = "done" /\ req'[r].status = 500]_vars

\* no delete request of image_id has started
NoDelete(image_id) ==
    \A d \in Req : (IsDelete(d) /\ req[d].target = image_id) => req[d].pc = "new"

\* every call of the request q succeeded
NoFailure(q) == \A i \in 1..Len(q.calls) : q.calls[i][2] = "ok"

\* C13: a download that started after the upload of its id had answered
\* created, with no delete of that id started and no failed call, answers
\* 200 with exactly the uploaded bytes and the declared content type.
C13_RoundTrip ==
    \A u, d \in Req :
        (/\ IsUpload(u) /\ Created(req[u])
         /\ req[d].op = "download" /\ req[d].target = req[u].id
         /\ req[d].late /\ req[d].pc = "done"
         /\ NoDelete(req[u].id) /\ NoFailure(req[d]))
            => /\ req[d].status = 200
               /\ req[d].out.data = req[u].in.body
               /\ req[d].out.mimetype = req[u].in.content_type

\* the instant a well-formed timestamp denotes: its hour less its offset
Instant(ts) == digit_value(ts[1]) - (IF Len(ts) = 3 THEN digit_value(ts[3]) ELSE 0)

\* a timestamp: an hour and an offset, or an hour and Z
WellFormed(ts) ==
    /\ Len(ts) \in {2, 3} /\ ts[1] \in Range(Digits)
    /\ IF Len(ts) = 2 THEN ts[2] = "Z" ELSE ts[2] = "+" /\ ts[3] \in Range(Digits)

\* the places where a comma-separated text is cut: before it, at each comma
\* and behind it
Cuts(text) == {0, Len(text) + 1} \cup {i \in 1..Len(text) : text[i] = ","}

\* text without the blanks around it
Trimmed(text) ==
    LET inked == {i \in 1..Len(text) : text[i] # " "}
    IN  IF inked = {} THEN <<>>
        ELSE SubSeq(text, CHOOSE i \in inked : \A j \in inked : i <= j,
                          CHOOSE i \in inked : \A j \in inked : j <= i)

\* the piece of a comma-separated text that begins behind the cut c
Piece(text, c) ==
    SubSeq(text, c + 1, (CHOOSE d \in Cuts(text) : d > c /\ \A e \in Cuts(text) : e > c => d <= e) - 1)

\* the tokens of a comma-separated text: its pieces, trimmed, the empty ones
\* dropped, in their order
Tokens(text) ==
    LET starts == {c \in Cuts(text) \ {Len(text) + 1} : Trimmed(Piece(text, c)) # <<>>}
    IN  [k \in 1..Cardinality(starts) |->
            Trimmed(Piece(text, CHOOSE c \in starts :
                                   Cardinality({e \in starts : e < c}) = k - 1))]

\* the record passes the tags filter: one of its tags is one of the tokens
TagsPass(item, tags) == Range(item.tags) \cap Range(Tokens(tags)) # {}

\* the record satisfies every filter the query supplies
Satisfies(item, query) ==
    /\ query.date_from # None => Instant(item.upload_date) >= Instant(query.date_from)
    /\ query.date_to # None => Instant(item.upload_date) <= Instant(query.date_to)
    /\ query.uploader # None => item.uploader = query.uploader
    /\ query.tags # None => TagsPass(item, query.tags)

\* the list request r reads the Metadata Store in this step, and the read
\* succeeds
Lists(r) ==
    /\ req[r].op = "list" /\ Starts(r)
    /\ req'[r].calls # <<>> /\ req'[r].calls[1][2] = "ok"

\* the ids of the records a response returns
Returned(q) == {q.out.items[i].id : i \in 1..Len(q.out.items)}

\* C14: a list whose date filters are well-formed returns exactly the
\* stored records that satisfy every supplied filter: upload_date not
\* before date_from, not after date_to, uploader equal to the filter value;
\* each record once.
C14_ListReturnsMatches ==
    [][\A r \in Req :
          (/\ Lists(r)
           /\ req[r].query.date_from # None => WellFormed(req[r].query.date_from)
           /\ req[r].query.date_to # None => WellFormed(req[r].query.date_to))
              => /\ req'[r].status = 200
                 /\ Returned(req'[r]) = {i \in DOMAIN table : Satisfies(table[i], req[r].query)}
                 /\ Len(req'[r].out.items) = Cardinality(Returned(req'[r]))]_vars

\* C15: a list with a tags filter and no date filter returns exactly the
\* stored records that have the uploader asked for, if any, and of whose
\* tags at least one equals one of the trimmed, non-empty tokens of the
\* filter.
C15_TagsFilterIsOr ==
    [][\A r \in Req :
          (/\ Lists(r) /\ Truthy(req[r].query.tags)
           /\ req[r].query.date_from = None /\ req[r].query.date_to = None)
              => /\ req'[r].status = 200
                 /\ Returned(req'[r]) =
                        {i \in DOMAIN table :
                            /\ TagsPass(table[i], req[r].query.tags)
                            /\ req[r].query.uploader # None
                                   => table[i].uploader = req[r].query.uploader}]_vars

\* the list request q answered 200 with the filter tags, returning an image
\* tagged a and b or leaving out the only record there is, which has these
\* tags
ListedByTags(q, tags, returned) ==
    /\ q.op = "list" /\ q.status = 200 /\ q.query = [NoQuery EXCEPT !.tags = tags]
    /\ 1 \in DOMAIN table /\ table[1].tags = <<<<"a">>, <<"b">>>>
    /\ IF returned THEN 1 \in Returned(q) ELSE q.out.items = <<>> /\ DOMAIN table = {1}

\* an image tagged a and b is returned by tags=a and by tags=c, b and left
\* out by tags=c
C15_Witness ==
    \E r \in Req :
        \/ variant = "app" /\ ListedByTags(req[r], <<"c", ",", " ", "b">>, TRUE)
        \/ variant = "server" /\ ListedByTags(req[r], <<"c">>, FALSE)

\* C16: the items of a list response are in descending order of
\* upload_date: no item is older than the item that follows it.
C16_ListSortedDescending ==
    \A r \in Req :
        (req[r].op = "list" /\ req[r].status = 200)
            => \A i \in 1..(Len(req[r].out.items) - 1) :
                  Instant(req[r].out.items[i].upload_date)
                      >= Instant(req[r].out.items[i + 1].upload_date)

\* a list returned two images uploaded at different hours, the second
\* upload first
C16_Witness ==
    \E r \in Req :
        /\ variant = "app" /\ req[r].op = "list" /\ req[r].status = 200
        /\ Len(req[r].out.items) = 2
        /\ req[r].out.items[1].id = 2 /\ req[r].out.items[2].id = 1
        /\ Instant(req[r].out.items[1].upload_date) > Instant(req[r].out.items[2].upload_date)

\* C17: a list without filters that reads an empty Metadata Store, the read
\* not raising, answers 200 with an empty sequence.
C17_EmptyStoreListsNothing ==
    [][\A r \in Req :
          (/\ req[r].op = "list" /\ Starts(r) /\ req[r].query = NoQuery
           /\ table = << >>
           /\ req'[r].calls[1][2] # "Exception")
              => /\ req'[r].pc = "done" /\ req'[r].status = 200
                 /\ req'[r].out.items = <<>>]_vars

\* a list without filters answered 200 with no items after the only upload
\* was deleted
C17_Witness ==
    \E r, u, d \in Req :
        /\ req[r].op = "list" /\ req[r].query = NoQuery
        /\ req[r].status = 200 /\ req[r].out.items = <<>>
        /\ IsUpload(u) /\ Created(req[u])
        /\ IsDelete(d) /\ req[d].status = 200 /\ req[d].target = req[u].id
        /\ table = << >>

\* the date filter is supplied and is not a timestamp
Malformed(ts) == ts # None /\ ~WellFormed(ts)

\* C18: a list whose date_from or date_to is not a well-formed timestamp
\* answers 400 with an error that names a malformed parameter, and returns
\* no records.
C18_MalformedDateRejected ==
    \A r \in Req :
        (/\ req[r].op = "list" /\ req[r].pc = "done"
         /\ Malformed(req[r].query.date_from) \/ Malformed(req[r].query.date_to))
            => /\ req[r].status = 400
               /\ req[r].out.items = <<>>
               /\ \/ /\ Malformed(req[r].query.date_from)
                     /\ req[r].error = "Invalid date_from format. Use ISO format."
                  \/ /\ Malformed(req[r].query.date_to)
                     /\ req[r].error = "Invalid date_to format. Use ISO format."

\* a tag without ink: empty, or blanks alone
Blank(tag) == \A i \in 1..Len(tag) : tag[i] = " "

\* C19: the tags stored in the record of an upload and the tags its
\* response returns are the tokens of its tags field: the pieces between the
\* commas, trimmed, the empty ones dropped, in their order; an absent or
\* empty field gives no tags; no stored tag is empty or blank.
C19_TagsAreTokens ==
    \A u \in Req :
        IsUpload(u) =>
            /\ (req[u].id \in DOMAIN table /\ "tags" \in table[req[u].id].fields)
                   => /\ table[req[u].id].tags = Tokens(form_tags(req[u].in))
                      /\ \A t \in Range(table[req[u].id].tags) : ~Blank(t)
            /\ Created(req[u]) => req[u].out.items[1].tags = Tokens(form_tags(req[u].in))

\* the upload of "a, b , ,c" answered created with the tags a, b, c, which
\* its record has too
C19_Witness ==
    \E u \in Req :
        /\ IsUpload(u) /\ Created(req[u])
        /\ req[u].in.tags = <<"a", ",", " ", "b", " ", ",", " ", ",", "c">>
        /\ req[u].out.items[1].tags = <<<<"a">>, <<"b">>, <<"c">>>>
        /\ req[u].id \in DOMAIN table
        /\ table[req[u].id].tags = <<<<"a">>, <<"b">>, <<"c">>>>

\* C20: the file_size of the record of an upload is the number of bytes of
\* its blob while both are stored, and the file_size a created response
\* returns is the number of bytes of the payload the upload wrote, whatever
\* length the client declared.
C20_FileSizeIsBytesWritten ==
    \A u \in Req :
        IsUpload(u) =>
            /\ (/\ req[u].id \in DOMAIN table /\ "file_size" \in table[req[u].id].fields
                /\ BlobKey(table[req[u].id]) \in DOMAIN bucket)
                   => table[req[u].id].file_size
                          = Len(bucket[BlobKey(table[req[u].id])].Body)
            /\ Created(req[u]) => req[u].out.items[1].file_size = Len(req[u].in.body)

\* an upload of two bytes declared as none answered created with file_size
\* 2, its record and its blob of two bytes stored
C20_Witness ==
    \E u \in Req :
        /\ IsUpload(u) /\ Created(req[u])
        /\ req[u].in.content_length = 0 /\ Len(req[u].in.body) = 2
        /\ req[u].out.items[1].file_size = 2
        /\ Stored(table, bucket, req[u])
        /\ table[req[u].id].file_size = 2

\* the upload request u has drawn its id
Drew(u) == IsUpload(u) /\ req[u].id # 0

\* C21: no two records of the Metadata Store share an id (every record is
\* stored under its own id, which exactly one upload drew), and no two
\* uploads draw the same id, whether or not the record of the earlier one
\* was deleted in between.
C21_IdsAreUnique ==
    /\ \A i \in DOMAIN table :
           table[i].id = i /\ Cardinality({u \in Req : Drew(u) /\ req[u].id = i}) = 1
    /\ \A u, v \in Req : (Drew(u) /\ Drew(v) /\ u # v) => req[u].id # req[v].id

\* an upload answered created, a delete of its id answered 200, and a later
\* upload answered created with another id, its record in the store
C21_Witness ==
    \E u, v \in Req :
        /\ IsUpload(u) /\ Created(req[u]) /\ Deleted(req[u].id)
        /\ req[u].id \notin DOMAIN table
        /\ IsUpload(v) /\ Created(req[v]) /\ req[v].id > req[u].id
        /\ req[v].id \in DOMAIN table

\* the attributes of a record that hold a key or path of the Blob Store
BlobKeyFields == {"s3_key", "file_path", "thumbnail_key"}

\* C22: every item of the JSON body of an answered upload, list or get has
\* the synthesized url, and has no attribute that holds a blob key.
C22_BlobKeyNotInResponses ==
    \A r \in Req :
        (req[r].op \in {"upload", "list", "get"} /\ req[r].pc = "done")
            => \A i \in 1..Len(req[r].out.items) :
                   /\ "url" \in req[r].out.items[i].fields
                   /\ req[r].out.items[i].fields \cap BlobKeyFields = {}

\* no request and no Processor run is in flight
Quiescent ==
    \A r \in Req : req[r].pc \in {"new", "done"} /\ lam[r].pc \in {"off", "done"}

\* no call of a request failed and no Processor run ended in an error
NoStoreFailure == \A r \in Req : NoFailure(req[r]) /\ lam[r].statusCode # 500

\* C23: in a quiescent state reached without a failed store operation, the
\* blob of every record is in the Blob Store, and every blob an upload
\* wrote that is in the Blob Store is the blob of a record.
C23_RecordIffBlob ==
    (Quiescent /\ NoStoreFailure)
        => /\ \A i \in DOMAIN table : BlobKey(table[i]) \in DOMAIN bucket
           /\ \A u \in Req :
                  (IsUpload(u) /\ req[u].key \in DOMAIN bucket)
                      => \E i \in DOMAIN table : BlobKey(table[i]) = req[u].key

\* C24: the calls of an upload request are, in this order, the blob write,
\* the insert after a blob write that succeeded, and the Processor
\* invocation after an insert that succeeded; no call is made twice, a call
\* that failed is followed by nothing but the rollback of a refused insert,
\* and a Processor run exists only for a request whose invocation succeeded.
C24_UploadStepOrder ==
    \A r \in Req :
        IsUpload(r) =>
            LET c == req[r].calls
            IN  /\ \A i, j \in 1..Len(c) : i < j => c[i][1] # c[j][1]
                /\ \A i \in 1..Len(c) :
                       /\ c[i][1] \in {"upload_to_s3", "copyfileobj"} => i = 1
                       /\ c[i][1] \in {"put_item", "insert_one"}
                              => /\ i = 2 /\ c[1][2] = "ok"
                                 /\ c[1][1] \in {"upload_to_s3", "copyfileobj"}
                       /\ c[i][1] = "invoke_lambda"
                              => /\ i = 3 /\ c[1] = <<"upload_to_s3", "ok">>
                                 /\ c[2] = <<"put_item", "ok">>
                       /\ c[i][2] \in Failures
                              => \/ i = Len(c)
                                 \/ /\ c[i] = <<"put_item", "ClientError">>
                                    /\ Len(c) = i + 1 /\ c[i + 1][1] = "delete_from_s3"
                /\ lam[r].pc # "off" => HasCall(req[r], "invoke_lambda", {"ok"})

\* an upload answered created after its three calls succeeded, in order,
\* and its Processor run ended
C24_Witness ==
    \E r \in Req :
        /\ IsUpload(r) /\ Created(req[r]) /\ lam[r].pc = "done"
        /\ req[r].calls =
               <<<<"upload_to_s3", "ok">>, <<"put_item", "ok">>, <<"invoke_lambda", "ok">>>>

\* the attributes every record written by an upload has
FullFieldSet == UploadFields \cup {IF variant = "app" THEN "s3_key" ELSE "file_path"}

\* C25: every record of the Metadata Store has the id of an upload whose
\* insert succeeded, and has the full field set.
C25_RecordsOnlyFromUpload ==
    \A i \in DOMAIN table :
        /\ ~NeverInserted(i)
        /\ FullFieldSet \subseteq table[i].fields

\* C26: of the delete requests of one id, at most one answers 200.
C26_AtMostOneDeleteSucceeds ==
    \A d, e \in Req :
        (/\ IsDelete(d) /\ IsDelete(e) /\ d # e /\ req[d].target = req[e].target
         /\ req[d].pc = "done" /\ req[d].status = 200 /\ req[e].pc = "done")
            => req[e].status # 200

\* the Metadata Store read of the request q (its first call) failed
ReadFailed(q) ==
    /\ q.op \in {"get", "download", "delete", "list"}
    /\ q.calls # <<>> /\ q.calls[1][2] \in Failures

\* C27: a get, download, delete or list whose Metadata Store read failed
\* answers 500: never 404, and never a success with a list.
C27_ReadFailureIsServerError ==
    \A r \in Req :
        ReadFailed(req[r]) => req[r].pc = "done" /\ req[r].status = 500

\* the record `new` is the record `old` but for the Processor's patch
PatchOf(old, new) ==
    /\ [new EXCEPT !.fields = old.fields, !.width = old.width, !.height = old.height,
                   !.thumbnail_key = old.thumbnail_key, !.processed = old.processed] = old
    /\ old.fields \subseteq new.fields
    /\ new.fields \ old.fields \subseteq PatchFields

\* C28: a step changes a record that exists before and after it only when it
\* is a step of the Processor, and then in width, height, thumbnail_key and
\* processed alone: id, filename, blob key, file_size, file_type, uploader,
\* tags, description and upload_date keep their values; a step of a list, a
\* get or a download leaves the Metadata Store as it is.
C28_OnlyThePatchChangesARecord ==
    [][/\ \A i \in DOMAIN table \cap DOMAIN table' :
             /\ PatchOf(table[i], table'[i])
             /\ table'[i] # table[i] => \E r \in Req : lam'[r] # lam[r]
       /\ \A r \in Req :
             (req[r].op \in {"list", "get", "download"} /\ req'[r] # req[r])
                 => table' = table]_vars

\* a processed record with the fields of its upload, listed with them
C28_Witness ==
    \E u, l \in Req :
        /\ IsUpload(u) /\ req[u].id \in DOMAIN table
        /\ table[req[u].id].processed
        /\ table[req[u].id].filename = req[u].in.filename
        /\ table[req[u].id].upload_date = req[u].upload_date
        /\ req[l].op = "list" /\ req[l].status = 200
        /\ \E i \in 1..Len(req[l].out.items) :
               /\ req[l].out.items[i].processed
               /\ req[l].out.items[i].upload_date = req[u].upload_date

\* the record has the whole patch of the Processor
Patched(rec) ==
    /\ PatchFields \subseteq rec.fields /\ rec.processed
    /\ rec.width > 0 /\ rec.height > 0 /\ rec.thumbnail_key # NoKey

\* C29: a step of a Processor run changes the Metadata Store only when it
\* is the update that ends the run with success, the thumbnail is then in
\* the Blob Store under thumbnails/<blob key>, and the record of the run's
\* id has width, height, thumbnail_key and processed after it; a step that
\* ends the run with an error leaves the store unchanged; and every record
\* with processed = true has the whole patch.
C29_PatchAfterThumbnailInOneUpdate ==
    [][/\ \A r \in Req :
             lam'[r] # lam[r]
                 => /\ lam'[r].statusCode # 200 => table' = table
                    /\ lam'[r].statusCode = 200
                           => /\ thumbnail_key_of(req[r].key) \in DOMAIN bucket
                              /\ req[r].id \in DOMAIN table'
                              /\ Patched(table'[req[r].id])
                              /\ table'[req[r].id].thumbnail_key
                                     = thumbnail_key_of(req[r].key)
       /\ \A i \in DOMAIN table' : table'[i].processed => Patched(table'[i])]_vars

\* a Processor run ended with success: its record is processed and the
\* thumbnail is in the Blob Store
C29_Witness ==
    \E r \in Req :
        /\ lam[r].statusCode = 200
        /\ req[r].id \in DOMAIN table /\ "filename" \in table[req[r].id].fields
        /\ Patched(table[req[r].id])
        /\ thumbnail_key_of(req[r].key) \in DOMAIN bucket

\* C30: when a delete none of whose calls failed answers 200 and the record
\* it removes is one the Processor has processed, neither the blob of the
\* record nor its thumbnail is in the Blob Store after that step.
C30_DeleteRemovesThumbnail ==
    [][\A d \in Req :
          (/\ IsDelete(d) /\ Answers(d) /\ req'[d].status = 200 /\ NoFailure(req'[d])
           /\ req[d].target \in DOMAIN table
           /\ table[req[d].target].processed)
              => /\ BlobKey(table[req[d].target]) \notin DOMAIN bucket'
                 /\ table[req[d].target].thumbnail_key \notin DOMAIN bucket']_vars

====
